---- MODULE Spec2Model ----
(***************************************************************************)
(* Verification model of the Pax-Compiler-Generator core:                  *)
(*   src/src/math/bit_math.h          bit primitives, umodq, bin_index,    *)
(*                                    get_bita / set_bita                  *)
(*   src/src/include/memory/memory.h  the partition interface              *)
(*                                    (m_reserve / m_resize / m_relinquish)*)
(*                                                                         *)
(* uqword is modelled as an unsigned word of WordBits bits; all arithmetic *)
(* on it wraps modulo 2^WordBits, as unsigned arithmetic does in C.        *)
(***************************************************************************)
EXTENDS Integers, Naturals, Sequences, FiniteSets, TLC

\* Width of uqword in the model (64 in the program).
WordBits == 5

\* Largest number of words of a bit array in the model.
MaxWords == 2

\* Size in bits beyond which the backing vector of the store cannot grow.
MaxVector == 4

\* Count at which the rounds of a reserve/relinquish repetition stop being
\* told apart.
MaxRounds == 3

VARIABLES
    \* ---- pure functions of bit_math.h ----
    fn,        \* the function that was applied ("none" before the call)
    arch,      \* the ARCH the header was compiled for
    a,         \* first operand
    b,         \* second operand
    res,       \* result of the call (on a)
    res2,      \* bin_index: result of the call on b; umodq: the number of
               \* iterations of its final loop
    \* ---- bit arrays ----
    bitarray,  \* the words of the array, indexed from 0
    fatal,     \* TRUE once fatalf ended the process
    lastSet,   \* the last set_bita call, or NoCall
    lastGet,   \* the last get_bita call and its result, or NoCall
    accessed,  \* indices of bitarray the last call read or wrote
    arrBefore, \* the array before the last call
    \* ---- partition store ----
    table,     \* PartitionTable: live key -> [offset, length]
    freeList,  \* FreeList: set of [offset, length]
    hwm,       \* high-water mark: length of the backing vector in bits
    mem,       \* the backing vector, bit by bit
    last,      \* the last store operation and what it saw
    cyc        \* the reserve/relinquish repetition under way, or NoCall

mathVars  == <<fn, arch, a, b, res, res2>>
arrayVars == <<bitarray, fatal, lastSet, lastGet, accessed, arrBefore>>
storeVars == <<table, freeList, hwm, mem, last, cyc>>
vars      == <<mathVars, arrayVars, storeVars>>

NoCall == [op |-> "none"]

(***************************************************************************)
(* Unsigned words and the C operators on them.                             *)
(***************************************************************************)
Word == 0 .. (2^WordBits - 1)

\* Conversion to uqword: reduction modulo 2^WordBits.
ToWord(x) == x % (2^WordBits)

\* Bit i of x.
BitOf(x, i) == (x \div (2^i)) % 2

\* x & y and x ^ y on words, bit by bit.
BitAnd(x, y) ==
    LET s[i \in 0 .. WordBits] ==
            IF i = WordBits THEN 0
            ELSE (IF BitOf(x, i) = 1 /\ BitOf(y, i) = 1 THEN 2^i ELSE 0) + s[i + 1]
    IN  s[0]

BitXor(x, y) ==
    LET s[i \in 0 .. WordBits] ==
            IF i = WordBits THEN 0
            ELSE (IF BitOf(x, i) # BitOf(y, i) THEN 2^i ELSE 0) + s[i + 1]
    IN  s[0]

\* ~x on a word.
BitNot(x) == (2^WordBits - 1) - x

(***************************************************************************)
(* A shift of a uqword by its full width or more, or by a negative count,  *)
(* is undefined in C.  The builds produce one of two results: the count is *)
(* taken modulo the width (x86 shl/shr), or every bit is shifted out and   *)
(* the result is 0.                                                        *)
(***************************************************************************)
OversizeShift == {"masked", "zero"}

ShiftLeft(x, n, ov) ==
    IF 0 <= n /\ n < WordBits THEN ToWord(x * 2^n)
    ELSE IF ov = "masked" THEN ToWord(x * 2^(n % WordBits))
    ELSE 0

ShiftRight(x, n, ov) ==
    IF 0 <= n /\ n < WordBits THEN x \div 2^n
    ELSE IF ov = "masked" THEN x \div 2^(n % WordBits)
    ELSE 0

(***************************************************************************)
(* sigbits, log2i (bit_math.h).  The header needs the GNU extensions       *)
(* (typeof, __attribute__), so the __GNUC__ branch of sigbits is the one   *)
(* compiled: bitwidth - __builtin_clz(bit_string | 1).                     *)
(***************************************************************************)
\* __builtin_clzll on a non-zero word: the zero bits above the highest one.
builtin_clz(x) ==
    LET n[i \in 0 .. WordBits] ==
            IF i = WordBits THEN 0
            ELSE IF BitOf(x, WordBits - 1 - i) = 1 THEN 0
            ELSE 1 + n[i + 1]
    IN  n[0]

\* x | 1
OrOne(x) == IF x % 2 = 1 THEN x ELSE x + 1

\* A sigbits that forgets the "| 1" and counts from the log: floor(log2 x).
sigbits_log(bit_string) ==
    IF bit_string = 0 THEN 0 ELSE WordBits - 1 - builtin_clz(bit_string)

sigbits(bit_string) == WordBits - builtin_clz(OrOne(bit_string))

log2i(bit_string) == ToWord(sigbits(bit_string) - 1)

(***************************************************************************)
(* The shift macro as the preprocessor expands it in umodq, line 203:      *)
(*     shift(a, (qword) sigbits(a) - (qword) sigbits(b))                   *)
(* The macro does not parenthesise its parameter, so its test "!a" becomes *)
(*     !(qword) sigbits(a) - (qword) sigbits(b)                            *)
(* which C reads as (!sigbits(a)) - sigbits(b).  sa and sb are the two     *)
(* sigbits values.                                                         *)
(***************************************************************************)
shift(value, sa, sb, ov) ==
    LET test == (IF sa = 0 THEN 1 ELSE 0) - sb
    IN  IF test # 0 THEN value
        ELSE IF sa - sb < 0 THEN ShiftRight(value, sa - sb, ov)
        ELSE ShiftLeft(value, sa - sb, ov)

(***************************************************************************)
(* umodq (bit_math.h 193-225).                                             *)
(***************************************************************************)
\* while (a >= b) a -= b;  with b > 0
RECURSIVE umodq_loop(_, _)
umodq_loop(x, y) == IF x >= y THEN umodq_loop(x - y, y) ELSE x

\* The value of a that enters the final loop of umodq, for b > 0.
umodq_reduced(x, y, ov) ==
    LET a1 == ToWord(shift(x, sigbits(x), sigbits(y), ov))
        k1 == log2i(y) + 1
        a2 == ShiftRight(a1, k1, ov)
        \* (uqword) ((udqword) (1ull << k1) - (udqword) b)
        b2 == ToWord(ShiftLeft(1, k1, ov) - y)
        \* (uqword) ((udqword) a & (udqword) ((1ull << k1) - 1))
        a3 == BitAnd(a1, ToWord(ShiftLeft(1, k1, ov) - 1))
    IN  ToWord(a3 + b2 * a2)

\* The number of times the body of that loop runs.
RECURSIVE umodq_loop_count(_, _)
umodq_loop_count(x, y) == IF x >= y THEN 1 + umodq_loop_count(x - y, y) ELSE 0

\* A umodq that takes x mod 0 to be x.
umodq_keep(x, y, ov) ==
    IF y = 0 THEN x ELSE umodq_loop(umodq_reduced(x, y, ov), y)

umodq(x, y, ov) ==
    IF y = 0 THEN 0 ELSE umodq_loop(umodq_reduced(x, y, ov), y)

\* The iterations of the final loop in the call umodq(x, y).
umodq_iterations(x, y, ov) ==
    IF y = 0 THEN 0 ELSE umodq_loop_count(umodq_reduced(x, y, ov), y)

(***************************************************************************)
(* cntlz, cnttz (bit_math.h 129-169).  For ARCH_X86_64 they call the       *)
(* lzcnt / tzcnt wrappers of asm.h; for any other ARCH they run the        *)
(* portable loops of the header.                                           *)
(***************************************************************************)
Archs == {"ARCH_X86_64", "ARCH_OTHER"}

\* The lzcnt and tzcnt instructions: the operand width for 0.
x64_lzcnt(x) == IF x = 0 THEN WordBits ELSE builtin_clz(x)

x64_tzcnt(x) ==
    LET n[i \in 0 .. WordBits] ==
            IF i = WordBits THEN 0
            ELSE IF BitOf(x, i) = 1 THEN 0
            ELSE 1 + n[i + 1]
    IN  n[0]

\* for (i = start; i < bitwidth && (loop_condition = (bit_string >> i) & 1u); i++)
\*     zeroes += loop_condition;          (zeroes is a ubyte)
RECURSIVE count_loop(_, _, _)
count_loop(bit_string, i, zeroes) ==
    IF i < WordBits /\ BitOf(bit_string, i) = 1
    THEN count_loop(bit_string, i + 1, (zeroes + 1) % 256)
    ELSE zeroes

cntlz(ar, bit_string) ==
    IF ar = "ARCH_X86_64" THEN x64_lzcnt(bit_string)
    ELSE count_loop(BitNot(bit_string), WordBits - 1, 0)

cnttz(ar, bit_string) ==
    IF ar = "ARCH_X86_64" THEN x64_tzcnt(bit_string)
    ELSE count_loop(BitNot(bit_string), 0, 0)

(***************************************************************************)
(* ones (bit_math.h 171-190).  For ARCH_X86_64 it calls the popcnt wrapper *)
(* of asm.h; for any other ARCH it runs the portable loop of the header,   *)
(* which is the loop of cnttz.                                             *)
(***************************************************************************)
\* The popcnt instruction: the number of bits that are 1.
x64_popcnt(x) ==
    LET n[i \in 0 .. WordBits] ==
            IF i = WordBits THEN 0 ELSE BitOf(x, i) + n[i + 1]
    IN  n[0]

ones(ar, bit_string) ==
    IF ar = "ARCH_X86_64" THEN x64_popcnt(bit_string)
    ELSE count_loop(BitNot(bit_string), 0, 0)

(***************************************************************************)
(* bin_index (bit_math.h 600-616).                                         *)
(***************************************************************************)
\* bin_index with the sign of the side term slipped.
bin_index_plus(address) ==
    LET side == address % 2
        path == address \div 2
        address_bits == log2i(path)
    IN  IF path = 0 THEN side
        ELSE IF path = 1 THEN side
        ELSE ToWord(2 * 2^address_bits - 2 + path + side * 2^address_bits)

bin_index(address) ==
    LET side == address % 2
        path == address \div 2
        address_bits == log2i(path)
    IN  IF path = 0 THEN side
        ELSE IF path = 1 THEN side
        ELSE ToWord(2 * 2^address_bits - 2 + path - side * 2^address_bits)

(***************************************************************************)
(* in_buffer, get_bita, set_bita (bit_math.h 592-598, 618-629, 661-670).   *)
(* A bit array is a function from 0 .. words-1 to words.                   *)
(***************************************************************************)
\* sizeof(uintmin_t): declared in platform.h; the smallest addressable unit.
SizeofUintminT == 1

\* bits = sizeof(uqword) * sizeof(uintmin_t) * MIN_BITS
bits == WordBits * SizeofUintminT

\* in_range: the inclusive test, min <= value <= max.
in_range(min, max, value) == (min <= value) /\ (value <= max)

in_buffer(min, max, value) == (min <= value) /\ (value < max)

\* The number of words of a bit array.
WordsOf(arr) == Cardinality(DOMAIN arr)

\* (word >> (bit_index % bits)) & 1
get_word_bit(word, sh) == BitAnd(ShiftRight(word, sh, "masked"), 1)

\* A set that can only raise the bit: word |= (value & 1) << sh.
set_word_bit_or(word, value, sh) ==
    LET v == ShiftLeft(BitAnd(value, 1), sh, "masked")
    IN  BitXor(word, BitAnd(BitXor(word, v), v))

\* A set that forgets the mask of the addressed bit:
\* word ^= word ^ ((value & 1) << sh).
set_word_bit_nomask(word, value, sh) ==
    BitXor(word, BitXor(word, ShiftLeft(BitAnd(value, 1), sh, "masked")))

\* word ^= (word ^ ((value & 1) << sh)) & (1 << sh)
set_word_bit(word, value, sh) ==
    BitXor(word, BitAnd(BitXor(word, ShiftLeft(BitAnd(value, 1), sh, "masked")),
                        ShiftLeft(1, sh, "masked")))

(***************************************************************************)
(* The partition store behind memory_interface (memory.h 24-103).  The     *)
(* header declares m_reserve, m_resize and m_relinquish; the store itself  *)
(* is modelled from its design: one growable backing vector, a table from  *)
(* keys to regions, and a free list of reclaimed regions kept coalesced.   *)
(***************************************************************************)
\* (context, identifier) pairs the callers use.
Keys == {<<1, 1>>, <<1, 2>>}

\* Sizes, in bits, a caller asks for.
Sizes == 1 .. MaxVector

Region(offset, length) == [offset |-> offset, length |-> length]

\* The bit positions of a region.
Cells(r) == r.offset .. (r.offset + r.length - 1)

\* The free list with adjacent regions merged: the maximal runs of its cells.
Coalesce(F) ==
    LET cells == UNION {Cells(r) : r \in F}
    IN  {r \in [offset : 0 .. MaxVector, length : 1 .. MaxVector] :
            /\ Cells(r) \subseteq cells
            /\ (r.offset - 1) \notin cells
            /\ (r.offset + r.length) \notin cells}

\* A release that forgets the region instead of putting it on the free list.
Release_leak(F, p) == F

\* The free list after region p is returned to it.
Release(F, p) == Coalesce(F \cup {p})

\* A take that leaves the region on the free list.
TakeFromFree_keep(F, r, len) == F

\* The free list after the first len bits of its region r are taken.
TakeFromFree(F, r, len) ==
    (F \ {r}) \cup (IF len < r.length
                    THEN {Region(r.offset + len, r.length - len)}
                    ELSE {})

\* The backing vector grown to newHwm bits; the new bits are 0.
Grow(m, newHwm) ==
    [i \in 0 .. (newHwm - 1) |-> IF i \in DOMAIN m THEN m[i] ELSE 0]

\* A copy that leaves out the last bit.
CopyBits_short(m, from, to, n) ==
    [i \in DOMAIN m |->
        IF i >= to /\ i < to + n - 1 THEN m[from + (i - to)] ELSE m[i]]

\* The vector m after n bits are copied from offset `from` to offset `to`
\* (the two ranges do not overlap).
CopyBits(m, from, to, n) ==
    [i \in DOMAIN m |->
        IF i >= to /\ i < to + n THEN m[from + (i - to)] ELSE m[i]]

\* The ways the store can find a region of at least `size` bits: the smallest
\* free region that is large enough, taken exactly or whole; otherwise a new
\* region at the high-water mark.  The empty set is allocation failure.
Allocate(size, F, h) ==
    LET fits == {r \in F : r.length >= size}
        best == {r \in fits : \A q \in fits : r.length <= q.length}
    IN  IF fits # {}
        THEN UNION {{[region   |-> Region(r.offset, len),
                      free     |-> TakeFromFree(F, r, len),
                      hwm      |-> h,
                      fromFree |-> TRUE] : len \in {size, r.length}} : r \in best}
        ELSE IF h + size <= MaxVector
        THEN {[region   |-> Region(h, size),
               free     |-> F,
               hwm      |-> h + size,
               fromFree |-> FALSE]}
        ELSE {}

\* The bits a partition holds, first bit first.
Content(m, p) == [i \in 1 .. p.length |-> m[p.offset + i - 1]]

\* The contents of every live partition.
Contents == [k \in DOMAIN table |-> Content(mem, table[k])]

(***************************************************************************)
(* Values the variables of a component hold while another component runs.  *)
(***************************************************************************)
MathIdle ==
    /\ fn = "none" /\ arch = "ARCH_X86_64"
    /\ a = 0 /\ b = 0 /\ res = 0 /\ res2 = 0

ArrayIdle ==
    /\ bitarray = <<>> /\ fatal = FALSE
    /\ lastSet = NoCall /\ lastGet = NoCall
    /\ accessed = {} /\ arrBefore = <<>>

StoreIdle ==
    /\ table = <<>> /\ freeList = {} /\ hwm = 0 /\ mem = <<>>
    /\ last = NoCall /\ cyc = NoCall

(***************************************************************************)
(* Spec: the pure functions of bit_math.h, each applied once to operands   *)
(* drawn from all words, under each ARCH.                                  *)
(***************************************************************************)
Init ==
    /\ fn = "none"
    /\ arch \in Archs
    /\ a \in Word
    /\ b \in Word
    /\ res = 0
    /\ res2 = 0
    /\ ArrayIdle
    /\ StoreIdle

CallUmodq ==
    /\ fn = "none"
    /\ fn' = "umodq"
    /\ \E ov \in OversizeShift :
          /\ res' = umodq(a, b, ov)
          /\ res2' = umodq_iterations(a, b, ov)
    /\ UNCHANGED <<arch, a, b, arrayVars, storeVars>>

CallSigbits ==
    /\ fn = "none"
    /\ fn' = "sigbits"
    /\ res' = sigbits(a)
    /\ res2' = 0
    /\ UNCHANGED <<arch, a, b, arrayVars, storeVars>>

CallCntlz ==
    /\ fn = "none"
    /\ fn' = "cntlz"
    /\ res' = cntlz(arch, a)
    /\ res2' = 0
    /\ UNCHANGED <<arch, a, b, arrayVars, storeVars>>

CallCnttz ==
    /\ fn = "none"
    /\ fn' = "cnttz"
    /\ res' = cnttz(arch, a)
    /\ res2' = 0
    /\ UNCHANGED <<arch, a, b, arrayVars, storeVars>>

CallOnes ==
    /\ fn = "none"
    /\ fn' = "ones"
    /\ res' = ones(arch, a)
    /\ res2' = 0
    /\ UNCHANGED <<arch, a, b, arrayVars, storeVars>>

\* bin_index applied to two addresses, a and b.
CallBinIndex ==
    /\ fn = "none"
    /\ fn' = "bin_index"
    /\ res' = bin_index(a)
    /\ res2' = bin_index(b)
    /\ UNCHANGED <<arch, a, b, arrayVars, storeVars>>

Next ==
    \/ CallUmodq
    \/ CallSigbits
    \/ CallCntlz
    \/ CallCnttz
    \/ CallOnes
    \/ CallBinIndex

Spec == Init /\ [][Next]_vars

(***************************************************************************)
(* Reference notions the claims are stated with.                           *)
(***************************************************************************)
\* The number of zero bits above the highest set bit (the width for 0).
LeadingZeros(x) ==
    CHOOSE n \in 0 .. WordBits :
        /\ x < 2^(WordBits - n)
        /\ (n = WordBits \/ x >= 2^(WordBits - n - 1))

\* The number of zero bits below the lowest set bit (the width for 0).
TrailingZeros(x) ==
    IF x = 0 THEN WordBits
    ELSE CHOOSE n \in 0 .. (WordBits - 1) :
            /\ x % (2^n) = 0
            /\ x % (2^(n + 1)) # 0

\* The depth of a tree path p >= 1: the d with 2^d <= p < 2^(d+1).
Depth(p) == CHOOSE d \in 0 .. WordBits : 2^d <= p /\ p < 2^(d + 1)

PathOf(address) == address \div 2

\* C1: for every word a and every word b > 0, including b with its top bit
\* set, umodq(a, b) returns a mod b.
C1_UmodqIsMod ==
    (fn = "umodq" /\ b > 0) => res = a % b

\* C8: sigbits(0) = 1, sigbits(2^k) = k + 1 for every k below the width, and
\* sigbits(2^k - 1) = k for every k >= 1.
C8_Sigbits ==
    fn = "sigbits" =>
        /\ (a = 0 => res = 1)
        /\ \A k \in 0 .. (WordBits - 1) : a = 2^k => res = k + 1
        /\ \A k \in 1 .. WordBits : a = 2^k - 1 => res = k

C8_Witness ==
    /\ fn = "sigbits"
    /\ a = 2^(WordBits - 1)
    /\ res = WordBits

\* C9: cntlz(0) and cnttz(0) return the operand width, and for a non-zero x
\* cntlz(x) is the number of zero bits above the highest set bit and
\* cnttz(x) the number of zero bits below the lowest set bit.
C9_LeadingTrailingZeros ==
    /\ fn = "cntlz" => res = LeadingZeros(a)
    /\ fn = "cnttz" => res = TrailingZeros(a)

\* C2: bin_index is injective: two distinct addresses, of any path from 0
\* up, get two different offsets.
C2_InjectiveFromPathZero ==
    (fn = "bin_index" /\ a # b) => res # res2

\* C2 amended: bin_index is injective over the addresses whose path is at
\* least 1: two distinct such addresses get two different offsets.
C2_InjectiveFromPathOne ==
    (fn = "bin_index" /\ a # b /\ PathOf(a) >= 1 /\ PathOf(b) >= 1)
        => res # res2

C2_Witness ==
    /\ fn = "bin_index"
    /\ PathOf(a) = 1
    /\ PathOf(b) = 2^(WordBits - 1) - 1
    /\ a % 2 = 1
    /\ b % 2 = 1
    /\ res # res2

\* C10: bin_index is monotone by depth: of two addresses with paths >= 1,
\* the one whose path has fewer significant bits gets the strictly smaller
\* offset, whatever the side bits.
C10_MonotoneByDepth ==
    (/\ fn = "bin_index"
     /\ PathOf(a) >= 1
     /\ PathOf(b) >= 1
     /\ Depth(PathOf(a)) < Depth(PathOf(b)))
        => res < res2

C10_Witness ==
    /\ fn = "bin_index"
    /\ PathOf(a) = 3
    /\ a % 2 = 0
    /\ PathOf(b) = 4
    /\ b % 2 = 1
    /\ res < res2

(***************************************************************************)
(* SpecBitArray: one set_bita call on a bit array, with get_bita calls     *)
(* before and after it.  fatalf, which is declared outside this header,    *)
(* ends the process: after it no call is made.                             *)
(***************************************************************************)
\* Words an array starts with: all zero, all one, and the two alternations.
WordPatterns ==
    LET alt[i \in 0 .. WordBits] ==
            IF i = WordBits THEN 0
            ELSE (IF i % 2 = 0 THEN 2^i ELSE 0) + alt[i + 1]
    IN  {0, 2^WordBits - 1, alt[0], BitNot(alt[0])}

\* Bit offsets a caller passes: every bit of the largest array, and the
\* bits of one word beyond it.
BitOffsets == 0 .. ((MaxWords + 1) * bits - 1)

\* Values a caller passes to set_bita.
Values == 0 .. 3

InitBitArray ==
    /\ \E words \in 1 .. MaxWords :
          bitarray \in [0 .. (words - 1) -> WordPatterns]
    /\ fatal = FALSE
    /\ lastSet = NoCall
    /\ lastGet = NoCall
    /\ accessed = {}
    /\ arrBefore = <<>>
    /\ MathIdle
    /\ StoreIdle

\* fatalf(__func__, ...): the process terminates, nothing else changes.
fatalf ==
    /\ fatal' = TRUE
    /\ accessed' = {}
    /\ bitarray' = bitarray

\* set_bita(bitarray, words, bit_offset, value)
SetBita(bit_offset, value) ==
    LET words == WordsOf(bitarray)
        index == bit_offset \div bits
    IN  /\ ~fatal
        /\ lastSet = NoCall
        /\ lastSet' = [op |-> "set_bita", bit_offset |-> bit_offset, value |-> value]
        /\ lastGet' = NoCall
        /\ arrBefore' = bitarray
        /\ IF ~in_buffer(0, words, index)
           THEN fatalf
           ELSE /\ fatal' = FALSE
                /\ accessed' = {index}
                /\ IF index \in DOMAIN bitarray
                   THEN bitarray' =
                            [bitarray EXCEPT
                                ![index] = set_word_bit(@, value, bit_offset % bits)]
                   ELSE bitarray' = bitarray   \* a store outside the array
        /\ UNCHANGED <<mathVars, storeVars>>

\* get_bita(bitarray, words, bit_index)
GetBita(bit_index) ==
    LET words == WordsOf(bitarray)
        index == bit_index \div bits
    IN  /\ ~fatal
        /\ arrBefore' = bitarray
        /\ lastSet' = lastSet
        /\ IF ~in_buffer(0, words, index)
           THEN /\ fatalf
                /\ lastGet' = [op |-> "get_bita", bit_index |-> bit_index,
                               returned |-> FALSE, bit |-> 0]
           ELSE /\ fatal' = FALSE
                /\ accessed' = {index}
                /\ bitarray' = bitarray
                /\ \E word \in (IF index \in DOMAIN bitarray
                                THEN {bitarray[index]}
                                ELSE Word) :   \* a load outside the array
                      lastGet' = [op |-> "get_bita", bit_index |-> bit_index,
                                  returned |-> TRUE,
                                  bit |-> get_word_bit(word, bit_index % bits)]
        /\ UNCHANGED <<mathVars, storeVars>>

CallSetBita == \E bit_offset \in BitOffsets, value \in Values : SetBita(bit_offset, value)

CallGetBita == \E bit_index \in BitOffsets : GetBita(bit_index)

NextBitArray ==
    \/ CallSetBita
    \/ CallGetBita

SpecBitArray == InitBitArray /\ [][NextBitArray]_vars

\* The call made last.
LastCall == IF lastGet # NoCall THEN lastGet ELSE lastSet

\* The bit index of the call made last.
LastBitIndex ==
    IF lastGet # NoCall THEN lastGet.bit_index ELSE lastSet.bit_offset

\* C6: set_bita(arr, words, i, v) with i in [0, words * word_width) and v in
\* {0, 1}, followed by get_bita(arr, words, i), returns v.
C6_SetThenGet ==
    (/\ lastSet # NoCall
     /\ lastGet # NoCall
     /\ lastSet.bit_offset < WordsOf(bitarray) * WordBits
     /\ lastSet.value \in {0, 1}
     /\ lastGet.bit_index = lastSet.bit_offset)
        => (/\ ~fatal
            /\ lastGet.returned
            /\ lastGet.bit = lastSet.value)

\* A set of 0 over the top bit of the last word, which was all ones, read
\* back as 0.
C6_Witness ==
    /\ lastSet # NoCall
    /\ lastGet # NoCall
    /\ WordsOf(bitarray) = MaxWords
    /\ lastSet.bit_offset = MaxWords * WordBits - 1
    /\ lastSet.value = 0
    /\ bitarray[MaxWords - 1] = 2^(WordBits - 1) - 1
    /\ lastGet.bit_index = lastSet.bit_offset
    /\ lastGet.returned
    /\ lastGet.bit = 0

\* C7: a get_bita or set_bita call whose word index, bit index / word width,
\* is not below the word count ends in the fatal state, with no array word
\* read or written by the call and the array as it was before the call.
C7_OutOfRangeIsFatal ==
    (LastCall # NoCall /\ LastBitIndex \div WordBits >= WordsOf(bitarray))
        => (/\ fatal
            /\ accessed = {}
            /\ bitarray = arrBefore)

\* set_bita on the first bit past the last word of an array.
C7_Witness ==
    /\ lastSet # NoCall
    /\ lastGet = NoCall
    /\ lastSet.bit_offset = WordsOf(bitarray) * WordBits
    /\ lastSet.value = 1
    /\ fatal

(***************************************************************************)
(* SpecStore: reserve, resize and relinquish on one partition store, and   *)
(* the callers' writes into the partitions they hold.                      *)
(***************************************************************************)
\* What the store remembers of its last operation: `how` tells the way taken,
\* `before` holds the contents of the live partitions before a resize.
LastOp(op, key, size, ok, how, before) ==
    [op |-> op, key |-> key, size |-> size, ok |-> ok, how |-> how,
     before |-> before]

InitStore ==
    /\ table = <<>>
    /\ freeList = {}
    /\ hwm = 0
    /\ mem = <<>>
    /\ last = NoCall
    /\ cyc = NoCall
    /\ MathIdle
    /\ ArrayIdle

\* The table with key bound to region p.
Bind(key, p) ==
    [k \in (DOMAIN table) \cup {key} |-> IF k = key THEN p ELSE table[k]]

\* The repetition record after reserve(size) for key succeeded and left the
\* high-water mark at h.
CycleReserved(key, size, h, fromFree) ==
    IF cyc # NoCall /\ cyc.key = key /\ cyc.n = size /\ ~cyc.live
    THEN [cyc EXCEPT !.live = TRUE,
                     !.count = IF @ < MaxRounds THEN @ + 1 ELSE @,
                     !.reused = @ /\ fromFree]
    ELSE [op |-> "cycle", key |-> key, n |-> size, hw |-> h, count |-> 1,
          live |-> TRUE, reused |-> TRUE]

\* reserve: m_reserve(context, identifier, bits).  Keeping the keys of live
\* partitions unique is the caller's part of the contract.
Reserve(key, size) ==
    LET ways == Allocate(size, freeList, hwm)
    IN  /\ key \notin DOMAIN table
        /\ IF ways = {}
           THEN /\ last' = LastOp("reserve", key, size, FALSE, "fail", <<>>)
                /\ cyc' = IF cyc # NoCall /\ cyc.key = key /\ cyc.n = size
                          THEN [cyc EXCEPT !.reused = FALSE]
                          ELSE NoCall
                /\ UNCHANGED <<table, freeList, hwm, mem>>
           ELSE \E w \in ways :
                /\ table' = Bind(key, w.region)
                /\ freeList' = w.free
                /\ hwm' = w.hwm
                /\ mem' = Grow(mem, w.hwm)
                /\ last' = LastOp("reserve", key, size, TRUE,
                                  IF w.fromFree THEN "free" ELSE "append", <<>>)
                /\ cyc' = CycleReserved(key, size, w.hwm, w.fromFree)
        /\ UNCHANGED <<mathVars, arrayVars>>

\* resize: m_resize(context, identifier, bits)
Resize(key, size) ==
    /\ key \in DOMAIN table
    /\ LET p        == table[key]
           extra    == size - p.length
           end      == p.offset + p.length
           trailing == {r \in freeList : r.offset = end /\ r.length >= extra}
           ways     == Allocate(size, freeList, hwm)
       IN  IF size <= p.length
           THEN \* shrink: the tail goes back to the free list
                /\ table' = Bind(key, Region(p.offset, size))
                /\ freeList' = IF size < p.length
                               THEN Release(freeList, Region(p.offset + size, p.length - size))
                               ELSE freeList
                /\ UNCHANGED <<hwm, mem>>
                /\ last' = LastOp("resize", key, size, TRUE, "shrink", Contents)
           ELSE IF trailing # {}
           THEN \* grow in place into the free region that follows
                /\ \E r \in trailing :
                      freeList' = TakeFromFree(freeList, r, extra)
                /\ table' = Bind(key, Region(p.offset, size))
                /\ UNCHANGED <<hwm, mem>>
                /\ last' = LastOp("resize", key, size, TRUE, "inplace", Contents)
           ELSE IF end = hwm /\ hwm + extra <= MaxVector
           THEN \* grow in place at the end of the vector
                /\ table' = Bind(key, Region(p.offset, size))
                /\ hwm' = hwm + extra
                /\ mem' = Grow(mem, hwm + extra)
                /\ UNCHANGED freeList
                /\ last' = LastOp("resize", key, size, TRUE, "inplace", Contents)
           ELSE IF ways # {}
           THEN \* relocate: reserve, copy, swap the table entry, free the old
                \E w \in ways :
                /\ mem' = CopyBits(Grow(mem, w.hwm), p.offset, w.region.offset, p.length)
                /\ table' = Bind(key, w.region)
                /\ freeList' = Release(w.free, p)
                /\ hwm' = w.hwm
                /\ last' = LastOp("resize", key, size, TRUE, "relocate", Contents)
           ELSE \* allocation failure: nothing changes
                /\ UNCHANGED <<table, freeList, hwm, mem>>
                /\ last' = LastOp("resize", key, size, FALSE, "fail", Contents)
    /\ cyc' = NoCall
    /\ UNCHANGED <<mathVars, arrayVars>>

\* relinquish: m_relinquish(context, identifier)
Relinquish(key) ==
    /\ key \in DOMAIN table
    /\ table' = [k \in (DOMAIN table) \ {key} |-> table[k]]
    /\ freeList' = Release(freeList, table[key])
    /\ UNCHANGED <<hwm, mem>>
    /\ last' = LastOp("relinquish", key, 0, TRUE, "free", <<>>)
    /\ cyc' = IF cyc # NoCall /\ cyc.key = key /\ cyc.live
              THEN [cyc EXCEPT !.live = FALSE]
              ELSE NoCall
    /\ UNCHANGED <<mathVars, arrayVars>>

\* The holder of a partition writes bit i of it.
Write(key, i, v) ==
    /\ key \in DOMAIN table
    /\ i < table[key].length
    /\ mem[table[key].offset + i] # v
    /\ mem' = [mem EXCEPT ![table[key].offset + i] = v]
    /\ last' = LastOp("write", key, 0, TRUE, "write", <<>>)
    /\ UNCHANGED <<table, freeList, hwm, cyc>>
    /\ UNCHANGED <<mathVars, arrayVars>>

CallReserve == \E key \in Keys, size \in Sizes : Reserve(key, size)

CallResize == \E key \in Keys, size \in Sizes : Resize(key, size)

CallRelinquish == \E key \in Keys : Relinquish(key)

CallWrite == \E key \in Keys, i \in 0 .. (MaxVector - 1), v \in {0, 1} : Write(key, i, v)

NextStore ==
    \/ CallReserve
    \/ CallResize
    \/ CallRelinquish
    \/ CallWrite

SpecStore == InitStore /\ [][NextStore]_vars

\* Structure of the store: live partitions and free regions lie inside the
\* vector, free regions are disjoint from the live partitions and from each
\* other, and no two free regions are adjacent.
StoreShape ==
    /\ DOMAIN mem = 0 .. (hwm - 1)
    /\ hwm <= MaxVector
    /\ \A k \in DOMAIN table : Cells(table[k]) \subseteq DOMAIN mem
    /\ \A r \in freeList : Cells(r) \subseteq DOMAIN mem
    /\ \A r \in freeList : \A k \in DOMAIN table : Cells(r) \cap Cells(table[k]) = {}
    /\ \A r, q \in freeList : r # q => Cells(r) \cap Cells(q) = {}
    /\ freeList = Coalesce(freeList)

\* C3: after any sequence of reserve, resize and relinquish calls, the ranges
\* [offset, offset + length) of two distinct live keys are disjoint.
C3_NoOverlap ==
    \A k1, k2 \in DOMAIN table :
        k1 # k2 => Cells(table[k1]) \cap Cells(table[k2]) = {}

\* Two live partitions, one of them relocated by a resize into the vector
\* behind the other.
C3_Witness ==
    /\ DOMAIN table = Keys
    /\ last # NoCall
    /\ last.op = "resize"
    /\ last.how = "relocate"
    /\ freeList # {}

Min(x, y) == IF x <= y THEN x ELSE y

\* C4: resize(context, identifier, bits) on a live partition returns a
\* partition of at least `bits` bits whose first min(old_length, new_length)
\* bits are the bits it held before the call, whether it grew in place,
\* relocated or shrank, and the contents of every other live partition are
\* unchanged.
C4_ResizePreserves ==
    (last # NoCall /\ last.op = "resize" /\ last.ok) =>
        /\ last.key \in DOMAIN table
        /\ table[last.key].length >= last.size
        /\ \A i \in 1 .. Min(Len(last.before[last.key]), table[last.key].length) :
              Contents[last.key][i] = last.before[last.key][i]
        /\ \A k \in DOMAIN table :
              k # last.key => Contents[k] = last.before[k]

\* A resize that relocated a partition holding a 1 bit, next to another live
\* partition that holds a 1 bit too.
C4_Witness ==
    /\ last # NoCall
    /\ last.op = "resize"
    /\ last.ok
    /\ last.how = "relocate"
    /\ DOMAIN table = Keys
    /\ \E i \in DOMAIN last.before[last.key] : last.before[last.key][i] = 1
    /\ \A k \in Keys : \E i \in DOMAIN Contents[k] : Contents[k][i] = 1

\* C5: while reserve(n) and relinquish of that partition are repeated with
\* the same n, the high-water mark stays where the first reserve left it, and
\* every later reserve is satisfied from the free list.
C5_NoGrowthOnRepeat ==
    cyc # NoCall => (hwm = cyc.hw /\ cyc.reused)

\* The third reserve of a repetition, made while the other key is live.
C5_Witness ==
    /\ cyc # NoCall
    /\ cyc.count >= 3
    /\ cyc.live
    /\ DOMAIN table = Keys
    /\ last.op = "reserve"
    /\ last.how = "free"

\* C11: for every a and every b > 0 the final subtraction loop of umodq runs
\* a small number of times that does not grow with a: here, never more often
\* than the word has bits.
C11_LoopIsShort ==
    (fn = "umodq" /\ b > 0) => res2 <= WordBits

\* C12: umodq(a, 0) returns 0 for every a, as a normal result.
C12_ModZeroIsZero ==
    (fn = "umodq" /\ b = 0) => (res = 0 /\ res2 = 0 /\ ~fatal)

C12_Witness ==
    /\ fn = "umodq"
    /\ b = 0
    /\ a = 2^WordBits - 1
    /\ res = 0

\* The number of bits of x that are 1.
PopCount(x) == Cardinality({i \in 0 .. (WordBits - 1) : BitOf(x, i) = 1})

\* C13: ones(x) returns the number of bits set to 1 in x for every word x,
\* sparse and dense patterns included.
C13_OnesIsPopCount ==
    fn = "ones" => res = PopCount(a)

\* Bit i of word j of a bit array.
ArrayBit(arr, j, i) == BitOf(arr[j], i)

\* C14: set_bita with an in-range bit offset changes at most the addressed
\* bit: the array keeps its words, every other bit of every word is as it
\* was, and the addressed bit becomes the least-significant bit of the value
\* argument (the value modulo 2).
C14_SetChangesOneBit ==
    (/\ lastSet # NoCall
     /\ lastGet = NoCall
     /\ lastSet.bit_offset < WordsOf(arrBefore) * WordBits)
        => (/\ ~fatal
            /\ DOMAIN bitarray = DOMAIN arrBefore
            /\ \A j \in DOMAIN bitarray : \A i \in 0 .. (WordBits - 1) :
                  ArrayBit(bitarray, j, i) =
                      IF j * WordBits + i = lastSet.bit_offset
                      THEN lastSet.value % 2
                      ELSE ArrayBit(arrBefore, j, i)
            /\ \A j \in DOMAIN bitarray : bitarray[j] \in Word)

\* set_bita with value 2 over a bit that was 1, in the middle of an
\* all-ones word: that bit alone is cleared.
C14_Witness ==
    /\ lastSet # NoCall
    /\ lastGet = NoCall
    /\ ~fatal
    /\ lastSet.value = 2
    /\ lastSet.bit_offset = WordBits + 1
    /\ WordsOf(bitarray) = MaxWords
    /\ arrBefore[1] = 2^WordBits - 1
    /\ bitarray[1] = 2^WordBits - 1 - 2
    /\ bitarray[0] = arrBefore[0]

====
